---- MODULE Spec2Model ----
(***************************************************************************)
(* Model of ocrpickup: the extraction orchestrator, i.e. the POST handler   *)
(* of the analyze route (src/unnamed/part_000, lines 3-115), and the       *)
(* client page with its image preparer (src/src/app/page.tsx).             *)
(*                                                                         *)
(* One handler run is cut at its await points; each action is the code     *)
(* that runs between two awaits.  JavaScript values are tagged records     *)
(* [t, v]; a JavaScript string is a sequence of tokens, so concatenation   *)
(* is \o and "contains" is a sub-sequence test.                            *)
(***************************************************************************)
EXTENDS Integers, Sequences, FiniteSets, TLC

VARIABLES
  env,          \* process.env: DIFY_API_KEY, DIFY_API_URL, GOOGLE_VISION_API_KEY
  served,       \* number of requests answered so far
  pc,           \* position of the handler run
  reqBody,      \* raw text of the request body
  image,        \* const image   (line 5)
  prompt,       \* const prompt  (line 5)
  difyApiKey,   \* line 11
  difyApiUrl,   \* line 12
  googleApiKey, \* line 13
  visionRes,    \* the OCR provider's reply (line 49)
  ocrText,      \* line 65
  workflowRes,  \* the workflow provider's reply (line 85)
  response,     \* the NextResponse returned by the handler
  escaped,      \* TRUE when an exception left the handler
  thrown,       \* the value caught by the catch block, if any
  net,          \* outbound network events of the current request, in order
  bootEnv,      \* process.env as it was when the process started
  homeImage,    \* useState image     (page.tsx line 12)
  loading,      \* useState loading   (page.tsx line 13)
  result,       \* useState result    (page.tsx line 14)
  homeError,    \* useState error     (page.tsx line 15)
  picked,       \* the files handed to processFile, in order
  runs,         \* the compressImage invocations, in order
  canvas,       \* the canvas of the latest compressImage run that drew one
  analysis,     \* the handleAnalyze run in progress, if any
  requests,     \* number of /api/analyze requests sent by the page
  resultFrom    \* the image that was sent in the request result came from

vars == <<env, served, pc, reqBody, image, prompt, difyApiKey, difyApiUrl,
          googleApiKey, visionRes, ocrText, workflowRes, response, escaped,
          thrown, net, bootEnv, homeImage, loading, result, homeError, picked,
          runs, canvas, analysis, requests, resultFrom>>

\* the state of the page (the browser side)
browser == <<homeImage, loading, result, homeError, picked, runs, canvas,
             analysis, requests, resultFrom>>

\* Number of requests one behaviour serves.
MaxRequests == 2

-----------------------------------------------------------------------------
(* JavaScript values *)

Undefined == [t |-> "undefined", v |-> <<>>]
Null == [t |-> "null", v |-> <<>>]
Str(s) == [t |-> "string", v |-> s]
\* a number, written as its decimal text
Num(n) == [t |-> "number", v |-> <<n>>]
Arr(a) == [t |-> "array", v |-> a]
Obj(p) == [t |-> "object", v |-> p]
Prop(k, x) == [k |-> k, val |-> x]
Err(m) == [t |-> "error", v |-> m]

Nullish(x) == x.t \in {"undefined", "null"}

\* ToBoolean, as used by !x and x || y
Truthy(x) ==
  CASE x.t \in {"undefined", "null"} -> FALSE
    [] x.t = "string" -> x.v # <<>>
    [] x.t = "number" -> x.v # <<"0">>
    [] OTHER -> TRUE

\* x.k for a non-nullish x
Get(x, k) ==
  IF x.t = "object" /\ \E i \in 1..Len(x.v) : x.v[i].k = k
  THEN x.v[CHOOSE i \in 1..Len(x.v) : x.v[i].k = k].val
  ELSE Undefined

\* x[i] for a non-nullish x, i counted from 0
Index(x, i) ==
  IF x.t = "array" /\ i < Len(x.v) THEN x.v[i + 1]
  ELSE IF x.t = "string" /\ i < Len(x.v) THEN Str(<<x.v[i + 1]>>)
  ELSE Undefined

\* x.length > 0
LengthPositive(x) == x.t \in {"array", "string"} /\ Len(x.v) > 0

\* Outcome of an evaluation: a value, or a thrown error
Ok(x) == [ok |-> TRUE, val |-> x]
Throw(m) == [ok |-> FALSE, val |-> Err(m)]

-----------------------------------------------------------------------------
(* JSON.stringify and JSON.parse *)

Indent(pretty, depth) ==
  IF pretty THEN <<"\n">> \o [i \in 1..depth |-> "  "] ELSE <<>>

RECURSIVE Ser(_, _, _)
RECURSIVE SerElems(_, _, _, _)
RECURSIVE SerProps(_, _, _, _)

\* elements a[i..] of an array; undefined becomes null
SerElems(a, i, pretty, depth) ==
  IF i > Len(a) THEN <<>>
  ELSE Indent(pretty, depth)
       \o (IF a[i].t = "undefined" THEN <<"null">> ELSE Ser(a[i], pretty, depth))
       \o (IF i < Len(a) THEN <<",">> ELSE <<>>)
       \o SerElems(a, i + 1, pretty, depth)

\* properties p[i..] of an object, p holding no undefined value
SerProps(p, i, pretty, depth) ==
  IF i > Len(p) THEN <<>>
  ELSE Indent(pretty, depth)
       \o <<"\"", p[i].k, "\"", ":">> \o (IF pretty THEN <<" ">> ELSE <<>>)
       \o Ser(p[i].val, pretty, depth)
       \o (IF i < Len(p) THEN <<",">> ELSE <<>>)
       \o SerProps(p, i + 1, pretty, depth)

\* Properties with an undefined value are dropped by JSON.stringify
Defined(p) == SelectSeq(p, LAMBDA q : q.val.t # "undefined")

\* text of a value other than undefined
Ser(x, pretty, depth) ==
  CASE x.t = "null" -> <<"null">>
    [] x.t = "string" -> <<"\"">> \o x.v \o <<"\"">>
    [] x.t = "number" -> x.v
    [] x.t = "array" ->
         IF x.v = <<>> THEN <<"[", "]">>
         ELSE <<"[">> \o SerElems(x.v, 1, pretty, depth + 1)
              \o Indent(pretty, depth) \o <<"]">>
    [] x.t = "object" ->
         IF Defined(x.v) = <<>> THEN <<"{", "}">>
         ELSE <<"{">> \o SerProps(Defined(x.v), 1, pretty, depth + 1)
              \o Indent(pretty, depth) \o <<"}">>
    [] OTHER -> <<"{", "}">>

\* JSON.stringify(x) and JSON.stringify(x, null, 2)
Stringify(x, pretty) ==
  IF x.t = "undefined" THEN Undefined ELSE Str(Ser(x, pretty, 0))

-----------------------------------------------------------------------------
(* Inputs: request bodies, configuration, provider replies *)

DataUrl == <<"data:image/jpeg;base64", ",", "AAAA">>
ClientPrompt == <<"list the items">>

ImageVals ==
  { Undefined, Null, Str(<<>>), Str(DataUrl), Str(<<"AAAA">>), Num("7") }

PromptVals == { Undefined, Str(<<>>), Str(ClientPrompt) }

\* the body { image, prompt }; an undefined member is an absent member
RequestObj(i, p) == Obj(Defined(<<Prop("image", i), Prop("prompt", p)>>))

RequestValues ==
  { Null, Num("42") } \cup { RequestObj(i, p) : i \in ImageVals, p \in PromptVals }

\* images:annotate responses
Annotated(a) == Obj(<<Prop("responses", Arr(<<Obj(<<Prop("textAnnotations", a)>>)>>))>>)

VisionDatas ==
  { Null,
    Obj(<<>>),
    Obj(<<Prop("responses", Arr(<<>>))>>),
    Obj(<<Prop("responses", Arr(<<Obj(<<>>)>>))>>),
    Annotated(Arr(<<>>)),
    Annotated(Arr(<<Null>>)),
    Annotated(Arr(<<Obj(<<Prop("locale", Str(<<"en">>))>>)>>)),
    Annotated(Arr(<<Obj(<<Prop("description", Str(<<>>))>>)>>)),
    Annotated(Arr(<<Obj(<<Prop("description", Str(<<"Hello World">>))>>),
                    Obj(<<Prop("description", Str(<<"Hello">>))>>)>>)) }

\* workflows/run responses
Outputs(o) == Obj(<<Prop("data", Obj(<<Prop("outputs", o), Prop("status", Str(<<"succeeded">>))>>))>>)

WorkflowDatas ==
  { Null,
    Obj(<<>>),
    Obj(<<Prop("data", Null)>>),
    Obj(<<Prop("data", Obj(<<Prop("status", Str(<<"succeeded">>))>>))>>),
    Outputs(Null),
    Outputs(Obj(<<>>)),
    Outputs(Obj(<<Prop("result", Str(<<"Item: Value">>))>>)),
    Outputs(Obj(<<Prop("result", Str(<<>>)), Prop("foo", Str(<<"bar">>))>>)),
    Outputs(Obj(<<Prop("result", Num("5"))>>)),
    Outputs(Obj(<<Prop("foo", Str(<<"bar">>))>>)) }

\* bodies the analyze route answers the page with
PageDatas ==
  { Obj(<<Prop("answer", Str(<<"Item: Value">>))>>),
    Obj(<<Prop("error", Str(<<"No text detected in the image.">>))>>) }

JsonUniverse == RequestValues \cup VisionDatas \cup WorkflowDatas \cup PageDatas

\* JSON.parse: the value whose text this is, or a SyntaxError; JsonTexts
\* pairs every value with its text
JsonTexts == { [text |-> Ser(x, FALSE, 0), val |-> x] : x \in JsonUniverse }

JsonParse(text) ==
  IF \E e \in JsonTexts : e.text = text
  THEN Ok((CHOOSE e \in JsonTexts : e.text = text).val)
  ELSE Throw(<<"Unexpected token in JSON">>)

RequestBodies ==
  { <<"{", "image">> } \cup { Ser(x, FALSE, 0) : x \in RequestValues }

KeyVals == { Undefined, Str(<<>>), Str(<<"secret">>) }
UrlVals == { Undefined, Str(<<"https://dify.internal/v1">>) }

Envs ==
  [ DIFY_API_KEY : KeyVals, DIFY_API_URL : UrlVals, GOOGLE_VISION_API_KEY : KeyVals ]

\* A settled fetch: rejected, or a status line with a body that is read later
Reply(f, s, r, b) == [fetch |-> f, status |-> s, readable |-> r, text |-> b]

NetworkFailure == Reply("reject", 0, FALSE, <<"fetch failed">>)

ErrorStatuses == { 300, 304, 403, 503, 999 }
ErrorTexts == { <<"service unavailable">>, <<"{", "}">> }

ErrorReplies ==
  { Reply("resolve", s, TRUE, b) : s \in ErrorStatuses, b \in ErrorTexts }
  \cup { Reply("resolve", 503, FALSE, <<>>) }

OkReplies(datas) ==
  { Reply("resolve", 200, TRUE, Ser(x, FALSE, 0)) : x \in datas }
  \cup { Reply("resolve", 200, TRUE, <<"<html>">>), Reply("resolve", 200, FALSE, <<>>) }

VisionReplies == { NetworkFailure } \cup ErrorReplies \cup OkReplies(VisionDatas)
WorkflowReplies == { NetworkFailure } \cup ErrorReplies \cup OkReplies(WorkflowDatas)

NoReply == Reply("none", 0, FALSE, <<>>)
NoResponse == [status |-> 0, body |-> Undefined]

-----------------------------------------------------------------------------
(* NextResponse and the pieces of the handler *)

\* NextResponse.json(body, { status }): the Response constructor rejects a
\* status outside 200..599 (RangeError) and a body on a null-body status
\* (TypeError); the body travels as JSON, so undefined members are dropped.
ResponseJson(body, status) ==
  IF status < 200 \/ status > 599
  THEN Throw(<<"init[\"status\"] must be in the range of 200 to 599, inclusive.">>)
  ELSE IF status \in {204, 205, 304}
  THEN Throw(<<"Response constructor: Invalid response status code ">>)
  ELSE Ok([status |-> status, body |-> Obj(Defined(body.v))])

ErrorBody(msg) == Obj(<<Prop("error", Str(msg))>>)

\* res.ok
IsOk(res) == res.status >= 200 /\ res.status <= 299

\* slip: only an absent member counts as missing
ImageMissing_absentOnly(img) == img.t = "undefined"

\* if (!image)
ImageMissing(img) == ~Truthy(img)

\* slip: only an unset variable counts as missing, an empty one passes
KeyMissing_unsetOnly(k) == k.t = "undefined"

\* if (!difyApiKey), if (!googleApiKey)
KeyMissing(k) == ~Truthy(k)

\* s.split(sep) on the tokens of a string
RECURSIVE Split(_, _)
Split(s, sep) ==
  IF \E i \in 1..Len(s) : s[i] = sep
  THEN LET i == CHOOSE i \in 1..Len(s) : s[i] = sep /\ \A j \in 1..(i - 1) : s[j] # sep
       IN  <<SubSeq(s, 1, i - 1)>> \o Split(SubSeq(s, i + 1, Len(s)), sep)
  ELSE <<s>>

\* image.split(',')[1]
Base64Data(img) ==
  IF img.t # "string" THEN Throw(<<"image.split is not a function">>)
  ELSE LET parts == Split(img.v, ",")
       IN  Ok(IF Len(parts) >= 2 THEN Str(parts[2]) ELSE Undefined)

VisionApiUrl(key) == <<"https://vision.googleapis.com/v1/images:annotate?key=">> \o key.v

VisionPayload(content) ==
  Obj(<<Prop("requests", Arr(<<Obj(<<
    Prop("image", Obj(<<Prop("content", content)>>)),
    Prop("features", Arr(<<Obj(<<Prop("type", Str(<<"TEXT_DETECTION">>))>>)>>))>>)>>))>>)

\* visionData.responses[0]?.textAnnotations
Detections(visionData) ==
  IF Nullish(visionData)
  THEN Throw(<<"Cannot read properties of null (reading 'responses')">>)
  ELSE IF Nullish(Get(visionData, "responses"))
  THEN Throw(<<"Cannot read properties of undefined (reading '0')">>)
  ELSE LET first == Index(Get(visionData, "responses"), 0)
       IN  Ok(IF Nullish(first) THEN Undefined ELSE Get(first, "textAnnotations"))

\* slip: the length test is left out
OcrText_noLength(detections) ==
  IF Truthy(detections)
  THEN IF Nullish(Index(detections, 0))
       THEN Throw(<<"Cannot read properties of undefined (reading 'description')">>)
       ELSE Ok(Get(Index(detections, 0), "description"))
  ELSE Ok(Str(<<>>))

\* detections && detections.length > 0 ? detections[0].description : ''
OcrText(detections) ==
  IF Truthy(detections) /\ LengthPositive(detections)
  THEN IF Nullish(Index(detections, 0))
       THEN Throw(<<"Cannot read properties of null (reading 'description')">>)
       ELSE Ok(Get(Index(detections, 0), "description"))
  ELSE Ok(Str(<<>>))

\* slip: the empty-text check is left out
NoTextDetected_skipped(text) == FALSE

\* if (!ocrText)
NoTextDetected(text) == ~Truthy(text)

\* the default instruction of line 79 ("please extract", in Japanese)
DefaultPrompt == <<"chuushutsu shite kudasai">>

\* slip: ?? in place of ||, an empty instruction is passed on
UserPrompt_nullish(p) == IF Nullish(p) THEN Str(DefaultPrompt) ELSE p

\* prompt || <default instruction>
UserPrompt(p) == IF Truthy(p) THEN p ELSE Str(DefaultPrompt)

WorkflowPayload(text, p) ==
  Obj(<<Prop("inputs", Obj(<<Prop("ocr_text", text), Prop("user_prompt", UserPrompt(p))>>)),
        Prop("response_mode", Str(<<"blocking">>)),
        Prop("user", Str(<<"image-extractor-user">>))>>)

WorkflowUrl(base) == base.v \o <<"/workflows/run">>

\* workflowData.data?.outputs
WorkflowOutputs(workflowData) ==
  IF Nullish(Get(workflowData, "data")) THEN Undefined
  ELSE Get(Get(workflowData, "data"), "outputs")

\* workflowData.data?.outputs?.result
WorkflowResult(workflowData) ==
  IF Nullish(WorkflowOutputs(workflowData)) THEN Undefined
  ELSE Get(WorkflowOutputs(workflowData), "result")

\* workflowData.data?.outputs?.result || JSON.stringify(workflowData.data?.outputs, null, 2)
ResultText(workflowData) ==
  IF Truthy(WorkflowResult(workflowData)) THEN WorkflowResult(workflowData)
  ELSE Stringify(WorkflowOutputs(workflowData), TRUE)

\* slip: the catch block rethrows instead of answering
CatchHandler_rethrow(error) == [escaped |-> TRUE, res |-> NoResponse]

\* catch (error): error.message is read, so a nullish thrown value would
\* throw again, outside the try block
CatchHandler(error) ==
  IF Nullish(error) THEN [escaped |-> TRUE, res |-> NoResponse]
  ELSE [escaped |-> FALSE,
        res |-> ResponseJson(ErrorBody(<<"Internal Server Error: ">> \o error.v), 500).val]

-----------------------------------------------------------------------------
(* The page: files, the image preparer, the replies of /api/analyze *)

\* Files handed to processFile in one behaviour, and analyses started.
MaxSelections == 3
MaxAnalyses == 2

File(n, t, r, d, w, h) ==
  [name |-> n, type |-> t, readable |-> r, decodable |-> d, width |-> w, height |-> h]

\* a wide image, a small one, a text file, a corrupt image, an unreadable one
Files ==
  { File("a.png", <<"image/", "png">>, TRUE, TRUE, 2000, 1000),
    File("b.jpg", <<"image/", "jpeg">>, TRUE, TRUE, 800, 600),
    File("notes.txt", <<"text/", "plain">>, TRUE, FALSE, 0, 0),
    File("broken.gif", <<"image/", "gif">>, TRUE, FALSE, 0, 0),
    File("gone.png", <<"image/", "png">>, FALSE, FALSE, 0, 0) }

\* slip: the MIME type is not looked at
IsImageType_any(type) == TRUE

\* file.type.startsWith('image/')
IsImageType(type) == Len(type) > 0 /\ type[1] = "image/"

MAX_WIDTH == 1024
MAX_HEIGHT == 1024

\* d *= max / other, then stored in canvas.width or canvas.height, an
\* unsigned long, which drops the fraction.  max / other is rounded to a
\* double first, so when d * max / other is a whole number q the product can
\* come out just below q (1568 * (1024 / 1568) = 1023.9999999999999) and the
\* canvas gets q - 1; both outcomes are kept.  Otherwise the fraction of the
\* exact quotient is at least 1 / other and the rounding cannot cross a whole
\* number.
Scaled(d, max, other) ==
  IF (d * max) % other = 0
  THEN { (d * max) \div other - 1, (d * max) \div other }
  ELSE { (d * max) \div other }

\* slip: the larger side is clamped but the other side is not scaled
CanvasSizes_clampOnly(w, h) ==
  IF w > h
  THEN { [width |-> IF w > MAX_WIDTH THEN MAX_WIDTH ELSE w, height |-> h] }
  ELSE { [width |-> w, height |-> IF h > MAX_HEIGHT THEN MAX_HEIGHT ELSE h] }

\* slip: the image is scaled to the bound whatever its size
CanvasSizes_always(w, h) ==
  IF w > h
  THEN { [width |-> MAX_WIDTH, height |-> x] : x \in Scaled(h, MAX_WIDTH, w) }
  ELSE { [width |-> x, height |-> MAX_HEIGHT] : x \in Scaled(w, MAX_HEIGHT, h) }

\* page.tsx lines 38-54: the sizes the canvas can get for a w x h image
CanvasSizes(w, h) ==
  IF w > h
  THEN IF w > MAX_WIDTH
       THEN { [width |-> MAX_WIDTH, height |-> x] : x \in Scaled(h, MAX_WIDTH, w) }
       ELSE { [width |-> w, height |-> h] }
  ELSE IF h > MAX_HEIGHT
       THEN { [width |-> x, height |-> MAX_HEIGHT] : x \in Scaled(w, MAX_HEIGHT, h) }
       ELSE { [width |-> w, height |-> h] }

\* canvas.toDataURL('image/jpeg', 0.7): the JPEG of the drawn file, or
\* "data:," for a canvas without pixels
ToDataURL(file, size) ==
  IF size.width = 0 \/ size.height = 0 THEN Str(<<"data:", ",">>)
  ELSE Str(<<"data:image/jpeg;base64", ",", file.name>>)

NoCanvas == [srcWidth |-> 0, srcHeight |-> 0, width |-> 0, height |-> 0]

\* the messages of page.tsx lines 67, 79, 127 and 135 (Japanese in the source)
NotImageMessage == <<"Please select an image file.">>
LoadFailedMessage == <<"Failed to load the image.">>
AnalysisFailedMessage == <<"Analysis failed">>
UnexpectedMessage == <<"An unexpected error occurred">>

\* the prompt of page.tsx line 112 (Japanese in the source)
PagePrompt == <<"Extract the text of this image as a structured list.">>

\* JSON.stringify({ image, prompt }), page.tsx lines 110-113
AnalyzeBody(img) == Ser(RequestObj(img, Str(PagePrompt)), FALSE, 0)

\* what fetch('/api/analyze') settles with
PageReply(f, s, c, r, b) ==
  [fetch |-> f, status |-> s, contentType |-> c, readable |-> r, text |-> b]

NoPageReply == PageReply("none", 0, Null, FALSE, <<>>)
JsonType == Str(<<"application/json">>)
HtmlType == Str(<<"text/html", "; charset=utf-8">>)

PageReplies ==
  { PageReply("reject", 0, Null, FALSE, <<"Failed to fetch">>),
    PageReply("resolve", 200, JsonType, TRUE, Ser(Obj(<<Prop("answer", Str(<<"Item: Value">>))>>), FALSE, 0)),
    PageReply("resolve", 200, JsonType, TRUE, <<"{", "}">>),
    PageReply("resolve", 200, JsonType, TRUE, <<"<html>">>),
    PageReply("resolve", 400, JsonType, TRUE,
              Ser(Obj(<<Prop("error", Str(<<"No text detected in the image.">>))>>), FALSE, 0)),
    PageReply("resolve", 500, JsonType, TRUE, <<"{", "}">>),
    PageReply("resolve", 504, HtmlType, TRUE, <<"<html>">>),
    PageReply("resolve", 413, Null, FALSE, <<>>) }

\* contentType && contentType.indexOf("application/json") !== -1
IsJsonType(c) ==
  Truthy(c) /\ c.t = "string" /\ \E i \in 1..Len(c.v) : c.v[i] = "application/json"

\* text.slice(0, 100), counted in tokens
Slice100(text) == SubSeq(text, 1, IF Len(text) < 100 THEN Len(text) ELSE 100)

NoAnalysis == [stage |-> "none", sent |-> Null, body |-> <<>>, res |-> NoPageReply]

BrowserInit ==
  /\ homeImage = Null
  /\ loading = FALSE
  /\ result = Str(<<>>)
  /\ homeError = Null
  /\ picked = <<>>
  /\ runs = <<>>
  /\ canvas = NoCanvas
  /\ analysis = NoAnalysis
  /\ requests = 0
  /\ resultFrom = Null

-----------------------------------------------------------------------------
(* The handler, one action per stretch of code between two awaits *)

locals == <<image, prompt, difyApiKey, difyApiUrl, googleApiKey>>

NetEvent(e, url, auth, body) == [ev |-> e, url |-> url, auth |-> auth, body |-> body]
Returned(e) == NetEvent(e, <<>>, <<>>, <<>>)

\* slip: after answering, the handler starts over instead of ending
Finish_startsOver(res) ==
  /\ response' = res
  /\ escaped' = FALSE
  /\ thrown' = Undefined
  /\ pc' = "req_json"

\* return <response> inside the try block
Finish(res) ==
  /\ response' = res
  /\ escaped' = FALSE
  /\ thrown' = Undefined
  /\ pc' = "done"

\* the catch block, lines 111-114
Caught(error) ==
  /\ response' = CatchHandler(error).res
  /\ escaped' = CatchHandler(error).escaped
  /\ thrown' = error
  /\ pc' = "done"

\* return NextResponse.json(...): the constructor itself may throw
Return(made) == IF made.ok THEN Finish(made.val) ELSE Caught(made.val)

\* the handler before its first request
ServerInit ==
  /\ served = 0
  /\ pc = "idle"
  /\ reqBody = <<>>
  /\ image = Undefined
  /\ prompt = Undefined
  /\ difyApiKey = Undefined
  /\ difyApiUrl = Undefined
  /\ googleApiKey = Undefined
  /\ visionRes = NoReply
  /\ ocrText = Undefined
  /\ workflowRes = NoReply
  /\ response = NoResponse
  /\ escaped = FALSE
  /\ thrown = Undefined
  /\ net = <<>>

Init ==
  /\ env \in Envs
  /\ bootEnv = env
  /\ ServerInit
  /\ BrowserInit

\* a request arrives and POST(req) starts; nothing survives from the last one
Receive(b) ==
  /\ pc = "idle"
  /\ served < MaxRequests
  /\ pc' = "req_json"
  /\ reqBody' = b
  /\ image' = Undefined
  /\ prompt' = Undefined
  /\ difyApiKey' = Undefined
  /\ difyApiUrl' = Undefined
  /\ googleApiKey' = Undefined
  /\ visionRes' = NoReply
  /\ ocrText' = Undefined
  /\ workflowRes' = NoReply
  /\ response' = NoResponse
  /\ escaped' = FALSE
  /\ thrown' = Undefined
  /\ net' = <<>>
  /\ UNCHANGED <<browser, bootEnv, env, served>>

\* slip: the settings are the ones captured when the process started
ProcessEnv_atStart == bootEnv

\* process.env, looked up inside POST (lines 11-13)
ProcessEnv == env

\* lines 5-55: await req.json() settles; validation; the OCR fetch is issued
ReqJsonSettles ==
  /\ pc = "req_json"
  /\ UNCHANGED <<browser, bootEnv, env, served, reqBody, visionRes, ocrText, workflowRes>>
  /\ LET parsed == JsonParse(reqBody) IN
     IF ~parsed.ok
     THEN Caught(parsed.val) /\ UNCHANGED <<locals, net>>
     ELSE IF Nullish(parsed.val)
     THEN /\ Caught(Err(<<"Cannot destructure property 'image' of null">>))
          /\ UNCHANGED <<locals, net>>
     ELSE
       /\ image' = Get(parsed.val, "image")
       /\ prompt' = Get(parsed.val, "prompt")
       /\ IF ImageMissing(image')
          THEN /\ Return(ResponseJson(ErrorBody(<<"Image is required">>), 400))
               /\ UNCHANGED <<difyApiKey, difyApiUrl, googleApiKey, net>>
          ELSE
            /\ difyApiKey' = ProcessEnv.DIFY_API_KEY
            /\ difyApiUrl' = IF Truthy(ProcessEnv.DIFY_API_URL) THEN ProcessEnv.DIFY_API_URL
                             ELSE Str(<<"https://api.dify.ai/v1">>)
            /\ googleApiKey' = ProcessEnv.GOOGLE_VISION_API_KEY
            /\ IF KeyMissing(difyApiKey')
               THEN /\ Return(ResponseJson(ErrorBody(<<"Dify API Key is not configured">>), 500))
                    /\ UNCHANGED net
               ELSE IF KeyMissing(googleApiKey')
               THEN /\ Return(ResponseJson(ErrorBody(<<"Google Vision API Key is not configured">>), 500))
                    /\ UNCHANGED net
               ELSE IF ~Base64Data(image').ok
               THEN Caught(Base64Data(image').val) /\ UNCHANGED net
               ELSE /\ net' = Append(net, NetEvent("ocr_call", VisionApiUrl(googleApiKey'), <<>>,
                                 Ser(VisionPayload(Base64Data(image').val), FALSE, 0)))
                    /\ pc' = "vision_fetch"
                    /\ UNCHANGED <<response, escaped, thrown>>

\* lines 49-57: the OCR fetch settles
VisionFetchSettles(r) ==
  /\ pc = "vision_fetch"
  /\ visionRes' = r
  /\ UNCHANGED <<browser, bootEnv, env, served, reqBody, locals, ocrText, workflowRes>>
  /\ IF r.fetch = "reject"
     THEN Caught(Err(r.text)) /\ net' = Append(net, Returned("ocr_return"))
     ELSE /\ pc' = IF IsOk(r) THEN "vision_json" ELSE "vision_text"
          /\ UNCHANGED <<response, escaped, thrown, net>>

\* lines 58-60: await visionRes.text() settles
VisionTextSettles ==
  /\ pc = "vision_text"
  /\ net' = Append(net, Returned("ocr_return"))
  /\ UNCHANGED <<browser, bootEnv, env, served, reqBody, locals, visionRes, ocrText, workflowRes>>
  /\ IF ~visionRes.readable
     THEN Caught(Err(<<"terminated">>))
     ELSE Return(ResponseJson(ErrorBody(<<"Vision API Error: ">> \o visionRes.text),
                              visionRes.status))

\* lines 63-92: await visionRes.json() settles; the workflow fetch is issued
VisionJsonSettles ==
  /\ pc = "vision_json"
  /\ UNCHANGED <<browser, bootEnv, env, served, reqBody, locals, visionRes, workflowRes>>
  /\ LET parsed == JsonParse(visionRes.text)
         detections == Detections(parsed.val)
         text == OcrText(detections.val)
     IN
     IF ~visionRes.readable
     THEN /\ Caught(Err(<<"terminated">>))
          /\ net' = Append(net, Returned("ocr_return"))
          /\ UNCHANGED ocrText
     ELSE IF ~parsed.ok
     THEN /\ Caught(parsed.val)
          /\ net' = Append(net, Returned("ocr_return"))
          /\ UNCHANGED ocrText
     ELSE IF ~detections.ok
     THEN /\ Caught(detections.val)
          /\ net' = Append(net, Returned("ocr_return"))
          /\ UNCHANGED ocrText
     ELSE IF ~text.ok
     THEN /\ Caught(text.val)
          /\ net' = Append(net, Returned("ocr_return"))
          /\ UNCHANGED ocrText
     ELSE
       /\ ocrText' = text.val
       /\ IF NoTextDetected(ocrText')
          THEN /\ Return(ResponseJson(ErrorBody(<<"No text detected in the image.">>), 400))
               /\ net' = Append(net, Returned("ocr_return"))
          ELSE /\ net' = net \o <<Returned("ocr_return"),
                                  NetEvent("workflow_call", WorkflowUrl(difyApiUrl),
                                           <<"Bearer ">> \o difyApiKey.v,
                                           Ser(WorkflowPayload(ocrText', prompt), FALSE, 0))>>
               /\ pc' = "workflow_fetch"
               /\ UNCHANGED <<response, escaped, thrown>>

\* lines 85-94: the workflow fetch settles
WorkflowFetchSettles(r) ==
  /\ pc = "workflow_fetch"
  /\ workflowRes' = r
  /\ UNCHANGED <<browser, bootEnv, env, served, reqBody, locals, visionRes, ocrText>>
  /\ IF r.fetch = "reject"
     THEN Caught(Err(r.text)) /\ net' = Append(net, Returned("workflow_return"))
     ELSE /\ pc' = IF IsOk(r) THEN "workflow_json" ELSE "workflow_text"
          /\ UNCHANGED <<response, escaped, thrown, net>>

\* lines 95-97: await workflowRes.text() settles
WorkflowTextSettles ==
  /\ pc = "workflow_text"
  /\ net' = Append(net, Returned("workflow_return"))
  /\ UNCHANGED <<browser, bootEnv, env, served, reqBody, locals, visionRes, ocrText, workflowRes>>
  /\ IF ~workflowRes.readable
     THEN Caught(Err(<<"terminated">>))
     ELSE Return(ResponseJson(ErrorBody(<<"Analysis failed: ">> \o workflowRes.text),
                              workflowRes.status))

\* lines 100-109: await workflowRes.json() settles; the answer is returned
WorkflowJsonSettles ==
  /\ pc = "workflow_json"
  /\ net' = Append(net, Returned("workflow_return"))
  /\ UNCHANGED <<browser, bootEnv, env, served, reqBody, locals, visionRes, ocrText, workflowRes>>
  /\ LET parsed == JsonParse(workflowRes.text) IN
     IF ~workflowRes.readable
     THEN Caught(Err(<<"terminated">>))
     ELSE IF ~parsed.ok
     THEN Caught(parsed.val)
     ELSE IF Nullish(parsed.val)
     THEN Caught(Err(<<"Cannot read properties of null (reading 'data')">>))
     ELSE Return(ResponseJson(Obj(<<Prop("answer", ResultText(parsed.val))>>), 200))

\* the response (or the escaped exception) is delivered; the run is over
Complete ==
  /\ pc = "done"
  /\ pc' = "idle"
  /\ served' = served + 1
  /\ UNCHANGED <<browser, bootEnv, env, reqBody, locals, visionRes, ocrText, workflowRes, response, escaped,
               thrown, net>>

Next ==
  \/ \E b \in RequestBodies : Receive(b)
  \/ ReqJsonSettles
  \/ \E r \in VisionReplies : VisionFetchSettles(r)
  \/ VisionTextSettles
  \/ VisionJsonSettles
  \/ \E r \in WorkflowReplies : WorkflowFetchSettles(r)
  \/ WorkflowTextSettles
  \/ WorkflowJsonSettles
  \/ Complete

Spec == Init /\ [][Next]_vars

\* a step of the handler that follows one of its awaits
Settles ==
  \/ ReqJsonSettles
  \/ \E r \in VisionReplies : VisionFetchSettles(r)
  \/ VisionTextSettles
  \/ VisionJsonSettles
  \/ \E r \in WorkflowReplies : WorkflowFetchSettles(r)
  \/ WorkflowTextSettles
  \/ WorkflowJsonSettles

\* every await of the handler settles: the request body arrives, each
\* outbound call returns or throws, each body read ends
FairSpec == Spec /\ WF_vars(Settles)

\* the environment of the running process is given another value
SetEnv(e) ==
  /\ e # env
  /\ env' = e
  /\ UNCHANGED <<browser, bootEnv, served, pc, reqBody, locals, visionRes, ocrText,
                 workflowRes, response, escaped, thrown, net>>

EnvNext ==
  \/ Next
  \/ \E e \in Envs : SetEnv(e)

\* environments the process is started in: everything set, nothing set
BootEnvs ==
  { [DIFY_API_KEY |-> Str(<<"secret">>), DIFY_API_URL |-> Str(<<"https://dify.internal/v1">>),
     GOOGLE_VISION_API_KEY |-> Str(<<"secret">>)],
    [DIFY_API_KEY |-> Undefined, DIFY_API_URL |-> Undefined,
     GOOGLE_VISION_API_KEY |-> Undefined] }

EnvInit ==
  /\ env \in BootEnvs
  /\ bootEnv = env
  /\ ServerInit
  /\ BrowserInit

\* the handler in a process whose environment may change while it runs
EnvSpec == EnvInit /\ [][EnvNext]_vars

-----------------------------------------------------------------------------
(* The page (page.tsx), one action per event handler or continuation *)

\* the state of the route handler
server == <<env, bootEnv, served, pc, reqBody, locals, visionRes, ocrText,
            workflowRes, response, escaped, thrown, net>>

Run(n, f, st) == [sel |-> n, file |-> f, stage |-> st]

\* handleFileChange / handleDrop, and processFile up to its await
\* (lines 19-24, 83-90, 65-73, 27-30)
SelectFile(f) ==
  /\ Len(picked) < MaxSelections
  /\ picked' = Append(picked, f)
  /\ IF ~IsImageType(f.type)
     THEN /\ homeError' = Str(NotImageMessage)
          /\ UNCHANGED runs
     ELSE /\ runs' = Append(runs, Run(Len(picked) + 1, f, "reading"))
          /\ UNCHANGED homeError
  /\ UNCHANGED <<server, homeImage, loading, result, canvas, analysis, requests, resultFrom>>

\* reader.onload (lines 31-33) or reader.onerror (line 61, then lines 77-80)
ReaderSettles(i) ==
  /\ i \in 1..Len(runs)
  /\ runs[i].stage = "reading"
  /\ IF runs[i].file.readable
     THEN /\ runs' = [runs EXCEPT ![i].stage = "decoding"]
          /\ UNCHANGED homeError
     ELSE /\ runs' = [runs EXCEPT ![i].stage = "failed"]
          /\ homeError' = Str(LoadFailedMessage)
  /\ UNCHANGED <<server, homeImage, loading, result, picked, canvas, analysis, requests, resultFrom>>

\* img.onload (lines 34-58) and the rest of processFile (lines 74-76), or
\* img.onerror (line 59, then lines 77-80)
ImageSettles(i) ==
  /\ i \in 1..Len(runs)
  /\ runs[i].stage = "decoding"
  /\ IF runs[i].file.decodable
     THEN \E size \in CanvasSizes(runs[i].file.width, runs[i].file.height) :
            /\ canvas' = [srcWidth |-> runs[i].file.width, srcHeight |-> runs[i].file.height,
                          width |-> size.width, height |-> size.height]
            /\ runs' = [runs EXCEPT ![i].stage = "done"]
            /\ homeImage' = ToDataURL(runs[i].file, size)
            /\ homeError' = Null
            /\ result' = Str(<<>>)
            /\ resultFrom' = Null
     ELSE /\ runs' = [runs EXCEPT ![i].stage = "failed"]
          /\ homeError' = Str(LoadFailedMessage)
          /\ UNCHANGED <<homeImage, result, canvas, resultFrom>>
  /\ UNCHANGED <<server, loading, picked, analysis, requests>>

\* the button is enabled (line 198)
ButtonEnabled == Truthy(homeImage) /\ ~loading

\* a click on the button: handleAnalyze up to its fetch (lines 97-114)
ClickAnalyze ==
  /\ ButtonEnabled
  /\ Truthy(homeImage)
  /\ requests < MaxAnalyses
  /\ loading' = TRUE
  /\ homeError' = Null
  /\ result' = Str(<<>>)
  /\ resultFrom' = Null
  /\ analysis' = [stage |-> "fetch", sent |-> homeImage, body |-> AnalyzeBody(homeImage),
                  res |-> NoPageReply]
  /\ requests' = requests + 1
  /\ UNCHANGED <<server, homeImage, picked, runs, canvas>>

\* catch (err) and finally, lines 133-138
AnalyzeFails(message) ==
  /\ homeError' = Str(IF message # <<>> THEN message ELSE UnexpectedMessage)
  /\ loading' = FALSE
  /\ analysis' = NoAnalysis
  /\ UNCHANGED <<result, resultFrom>>

\* setResult(...) and finally, lines 131 and 136-138
AnalyzeSucceeds(text) ==
  /\ result' = text
  /\ resultFrom' = analysis.sent
  /\ loading' = FALSE
  /\ analysis' = NoAnalysis
  /\ UNCHANGED homeError

\* the fetch of line 105 settles; lines 116-120 pick how the body is read
AnalyzeFetchSettles(r) ==
  /\ analysis.stage = "fetch"
  /\ IF r.fetch = "reject"
     THEN AnalyzeFails(r.text)
     ELSE /\ analysis' = [analysis EXCEPT !.stage = IF IsJsonType(r.contentType)
                                                   THEN "json" ELSE "text",
                                          !.res = r]
          /\ UNCHANGED <<loading, result, homeError, resultFrom>>
  /\ UNCHANGED <<server, homeImage, picked, runs, canvas, requests>>

\* await response.text() settles, lines 122-123
AnalyzeTextSettles ==
  /\ analysis.stage = "text"
  /\ IF ~analysis.res.readable
     THEN AnalyzeFails(<<"terminated">>)
     ELSE AnalyzeFails(<<"Server returned non-JSON response: ">>
                       \o Slice100(analysis.res.text) \o <<"...">>)
  /\ UNCHANGED <<server, homeImage, picked, runs, canvas, requests>>

\* data.answer || JSON.stringify(data, null, 2)
ResultOf(data) ==
  IF Truthy(Get(data, "answer")) THEN Get(data, "answer") ELSE Stringify(data, TRUE)

\* await response.json() settles, lines 119 and 126-131
AnalyzeJsonSettles ==
  /\ analysis.stage = "json"
  /\ LET parsed == JsonParse(analysis.res.text) IN
     IF ~analysis.res.readable
     THEN AnalyzeFails(<<"terminated">>)
     ELSE IF ~parsed.ok
     THEN AnalyzeFails(parsed.val.v)
     ELSE IF ~(analysis.res.status \in 200..299)
     THEN IF Nullish(parsed.val)
          THEN AnalyzeFails(<<"Cannot read properties of null (reading 'error')">>)
          ELSE AnalyzeFails(IF Truthy(Get(parsed.val, "error"))
                            THEN Get(parsed.val, "error").v ELSE AnalysisFailedMessage)
     ELSE IF Nullish(parsed.val)
          THEN AnalyzeFails(<<"Cannot read properties of null (reading 'answer')">>)
          ELSE AnalyzeSucceeds(ResultOf(parsed.val))
  /\ UNCHANGED <<server, homeImage, picked, runs, canvas, requests>>

\* the page in front of a route that is idle
PageInit ==
  /\ env = [DIFY_API_KEY |-> Str(<<"secret">>), DIFY_API_URL |-> Undefined,
            GOOGLE_VISION_API_KEY |-> Str(<<"secret">>)]
  /\ bootEnv = env
  /\ ServerInit
  /\ BrowserInit

PageNext ==
  \/ \E f \in Files : SelectFile(f)
  \/ \E i \in 1..MaxSelections : ReaderSettles(i)
  \/ \E i \in 1..MaxSelections : ImageSettles(i)
  \/ ClickAnalyze
  \/ \E r \in PageReplies : AnalyzeFetchSettles(r)
  \/ AnalyzeTextSettles
  \/ AnalyzeJsonSettles

PageSpec == PageInit /\ [][PageNext]_vars

\* img.width and img.height of the decoded images tried by the resize check
DimSamples ==
  { 1, 2, 3, 511, 512, 600, 1000, 1023, 1024, 1025, 1026, 1536, 1568, 2000,
    2047, 2048, 2049, 3000, 4096 }

\* compressImage at the moment img.onload is due, for an image of any of
\* the sampled sizes
ResizeInit ==
  /\ env = [DIFY_API_KEY |-> Str(<<"secret">>), DIFY_API_URL |-> Undefined,
            GOOGLE_VISION_API_KEY |-> Str(<<"secret">>)]
  /\ bootEnv = env
  /\ ServerInit
  /\ homeImage = Null
  /\ loading = FALSE
  /\ result = Str(<<>>)
  /\ homeError = Null
  /\ canvas = NoCanvas
  /\ analysis = NoAnalysis
  /\ requests = 0
  /\ resultFrom = Null
  /\ \E w \in DimSamples, h \in DimSamples :
       LET f == File("photo.png", <<"image/", "png">>, TRUE, TRUE, w, h)
       IN  /\ picked = <<f>>
           /\ runs = <<Run(1, f, "decoding")>>

ResizeNext == ImageSettles(1)

ResizeSpec == ResizeInit /\ [][ResizeNext]_vars

-----------------------------------------------------------------------------
(* Vocabulary of the properties *)

\* s contains sub as a contiguous part
Contains(s, sub) ==
  \E i \in 0..(Len(s) - Len(sub)) : SubSeq(s, i + 1, i + Len(sub)) = sub

Count(e) == Cardinality({ i \in 1..Len(net) : net[i].ev = e })
Called(e) == \E i \in 1..Len(net) : net[i].ev = e

ErrorOf(res) == Get(res.body, "error")
AnswerOf(res) == Get(res.body, "answer")
HasErrorBody(res) == ErrorOf(res).t = "string" /\ AnswerOf(res) = Undefined

\* a credential is configured when the variable is set to a non-empty string
Configured(k) == k.t = "string" /\ Len(k.v) > 0
CredentialAbsent ==
  ~Configured(env.GOOGLE_VISION_API_KEY) \/ ~Configured(env.DIFY_API_KEY)

\* the request body is JSON with members to read, and this is its image member
BodyReadable == JsonParse(reqBody).ok /\ JsonParse(reqBody).val.t # "null"
RequestImage == Get(JsonParse(reqBody).val, "image")
ImagePayloadMissing ==
  BodyReadable /\ RequestImage \in { Undefined, Null, Str(<<>>) }

\* the parsed body of a provider reply that was a readable success
Succeeded(r) == r.fetch = "resolve" /\ r.status \in 200..299 /\ r.readable
Failed(r) == r.fetch = "resolve" /\ r.status \notin 200..299 /\ r.readable
DataOf(r) == JsonParse(r.text).val

-----------------------------------------------------------------------------
(* C1: the workflow provider is called only after the OCR call of the same  *)
(* request has returned a success status with non-empty detected text; the  *)
(* two calls never overlap and each provider is called at most once.        *)
C1_Sequential ==
  /\ Count("ocr_call") <= 1
  /\ Count("workflow_call") <= 1
  /\ \A i \in 1..Len(net) :
       /\ net[i].ev = "ocr_call" /\ i < Len(net) => net[i + 1].ev = "ocr_return"
       /\ net[i].ev = "workflow_call" /\ i < Len(net) => net[i + 1].ev = "workflow_return"
       /\ net[i].ev = "workflow_call" =>
            /\ i = 3 /\ net[1].ev = "ocr_call" /\ net[2].ev = "ocr_return"
            /\ Succeeded(visionRes)
            /\ ocrText.t = "string" /\ Len(ocrText.v) > 0

C1_Witness ==
  /\ pc = "done"
  /\ Len(net) = 4
  /\ net[3].ev = "workflow_call"
  /\ net[4].ev = "workflow_return"
  /\ ocrText = Str(<<"Hello World">>)

C3_ImageRequired ==
  ImagePayloadMissing =>
     /\ net = <<>>
     /\ pc \in {"idle", "req_json", "done"}
     /\ pc = "done" =>
          /\ response.status = 400
          /\ HasErrorBody(response)

C3_Witness ==
  /\ pc = "done"
  /\ BodyReadable
  /\ RequestImage = Null
  /\ ~CredentialAbsent
  /\ response.status = 400

\* the OCR reply is a success that carries no text
NoTextReply ==
  /\ Succeeded(visionRes)
  /\ JsonParse(visionRes.text).ok
  /\ LET responses == Get(DataOf(visionRes), "responses") IN
     /\ responses.t = "array"
     /\ \/ Len(responses.v) = 0
        \/ /\ responses.v[1].t = "object"
           /\ LET a == Get(responses.v[1], "textAnnotations") IN
              \/ a.t = "undefined"
              \/ a.t = "array" /\ Len(a.v) = 0
              \/ /\ a.t = "array" /\ Len(a.v) > 0
                 /\ a.v[1].t = "object"
                 /\ Get(a.v[1], "description") \in { Undefined, Str(<<>>) }

(* C4: when the OCR call succeeds but yields no text, the request is        *)
(* answered 400 ("no text detected") and the workflow provider is not       *)
(* called.                                                                  *)
C4_NoText ==
  (NoTextReply /\ pc # "vision_json") =>
     /\ pc \in {"done", "idle"}
     /\ response.status = 400
     /\ ErrorOf(response) = Str(<<"No text detected in the image.">>)
     /\ ~Called("workflow_call")

C4_Witness ==
  /\ pc = "done"
  /\ NoTextReply
  /\ Get(DataOf(visionRes), "responses") = Arr(<<Obj(<<Prop("textAnnotations", Arr(<<>>))>>)>>)
  /\ response.status = 400

(* C5: when the OCR provider returns a non-success status s with body b,    *)
(* the response has status exactly s and an error message containing b, and *)
(* the workflow provider is not called.                                     *)
C5_OcrStatusMirrored ==
  (pc = "done" /\ Failed(visionRes)) =>
     /\ response.status = visionRes.status
     /\ ErrorOf(response).t = "string"
     /\ Contains(ErrorOf(response).v, visionRes.text)
     /\ ~Called("workflow_call")

(* C6: when the workflow provider returns a non-success status s with body  *)
(* b, the response has status exactly s and an error message containing b,  *)
(* and no answer is returned.                                               *)
C6_WorkflowStatusMirrored ==
  (pc = "done" /\ Failed(workflowRes)) =>
     /\ response.status = workflowRes.status
     /\ ErrorOf(response).t = "string"
     /\ Contains(ErrorOf(response).v, workflowRes.text)
     /\ AnswerOf(response) = Undefined

\* both provider calls succeeded and the workflow reply is a JSON mapping
BothSucceeded ==
  /\ pc = "done"
  /\ Succeeded(workflowRes)
  /\ JsonParse(workflowRes.text).ok
  /\ DataOf(workflowRes).t = "object"

\* data.outputs of the workflow reply, when data is a mapping
OutputsOf(r) == Get(Get(DataOf(r), "data"), "outputs")
HasResult(r) ==
  /\ OutputsOf(r).t = "object"
  /\ \E i \in 1..Len(OutputsOf(r).v) : OutputsOf(r).v[i].k = "result"

(* C7: when both calls succeed and data.outputs.result is a string r, the   *)
(* response is 200 with answer r, for every string r.                       *)
C7_AnswerIsResult ==
  (BothSucceeded /\ HasResult(workflowRes)
     /\ Get(OutputsOf(workflowRes), "result").t = "string") =>
     /\ response.status = 200
     /\ AnswerOf(response) = Get(OutputsOf(workflowRes), "result")

(* C8: when both calls succeed and outputs has no result field, the         *)
(* response is 200 with the serialized outputs mapping as answer; the       *)
(* serialized fallback is used only when result is absent.                  *)
C8_FallbackOnlyWhenAbsent ==
  (BothSucceeded /\ OutputsOf(workflowRes).t = "object") =>
     /\ ~HasResult(workflowRes) =>
          /\ response.status = 200
          /\ AnswerOf(response) = Str(Ser(OutputsOf(workflowRes), TRUE, 0))
     /\ AnswerOf(response) = Str(Ser(OutputsOf(workflowRes), TRUE, 0)) =>
          ~HasResult(workflowRes)

(* C9: every response is either 200 with a string answer or a 4xx/5xx       *)
(* status with a string error.                                              *)
C9_ResponseShape ==
  pc = "done" =>
     \/ response.status = 200 /\ AnswerOf(response).t = "string"
     \/ response.status \in 400..599 /\ ErrorOf(response).t = "string"

\* the exceptions the orchestration can meet, read off the inputs
BodyUnparseable == ~JsonParse(reqBody).ok
NetworkFailed(r) == r.fetch = "reject"
MalformedJson(r) == Succeeded(r) /\ ~JsonParse(r.text).ok
UnexpectedShape ==
  \/ /\ Succeeded(visionRes) /\ JsonParse(visionRes.text).ok
     /\ Get(DataOf(visionRes), "responses").t # "array"
  \/ /\ Succeeded(workflowRes) /\ JsonParse(workflowRes.text).ok
     /\ DataOf(workflowRes) = Null

ExceptionRaised ==
  \/ BodyUnparseable
  \/ NetworkFailed(visionRes) \/ NetworkFailed(workflowRes)
  \/ MalformedJson(visionRes) \/ MalformedJson(workflowRes)
  \/ UnexpectedShape

(* C10: every exception raised in the orchestration is caught at the        *)
(* top-level boundary and answered 500 with an error body containing the    *)
(* underlying message; no exception escapes the handler.                    *)
C10_AllCaught ==
  /\ ~escaped
  /\ (pc = "done" /\ ExceptionRaised) => thrown.t = "error"
  /\ (pc = "done" /\ thrown # Undefined) =>
        /\ response.status = 500
        /\ HasErrorBody(response)
        /\ Contains(ErrorOf(response).v, thrown.v)
  /\ (pc = "done" /\ NetworkFailed(workflowRes)) =>
        Contains(ErrorOf(response).v, workflowRes.text)

C10_Witness ==
  /\ pc = "done"
  /\ NetworkFailed(workflowRes)
  /\ thrown = Err(<<"fetch failed">>)
  /\ response.status = 500

\* the image member has the form "data:<mime>;base64,<payload>"
WellFormedImage(x) == x.t = "string" /\ Len(x.v) = 3 /\ x.v[2] = ","

(* C11: a request with malformed or missing input (image absent, image not  *)
(* a string of the form "data:<mime>;base64,<payload>", or no detected      *)
(* text) is answered 400, never 500.                                        *)
C11_Validation400 ==
  (/\ pc = "done"
   /\ ~CredentialAbsent
   /\ \/ BodyReadable /\ ~WellFormedImage(RequestImage)
      \/ NoTextReply) =>
     response.status = 400

(* C12: every orchestration whose outbound calls all settle reaches exactly *)
(* one terminal outcome and sends exactly one response; after it no further *)
(* outbound call is made and nothing is retried.                            *)
C12_Terminates ==
  /\ (pc = "req_json") ~> (pc = "done")
  /\ [](pc = "done" => response # NoResponse /\ ~escaped)
  /\ [](Count("ocr_call") <= 1 /\ Count("workflow_call") <= 1)
  /\ [][response' # response =>
          \/ response = NoResponse /\ pc # "done" /\ pc' = "done"
          \/ pc = "idle" /\ pc' = "req_json" /\ response' = NoResponse]_vars
  /\ [][pc = "done" => net' = net /\ pc' = "idle"]_vars

C12_Witness ==
  /\ pc = "done"
  /\ response.status = 200
  /\ Called("workflow_return")
  /\ served = 1

(* C13: an image whose larger dimension exceeds 1024 gets a canvas whose    *)
(* larger dimension is exactly 1024 and whose smaller dimension is within   *)
(* one pixel of smaller * 1024 / larger, square images included.            *)
C13_Clamped ==
  (canvas # NoCanvas /\ (canvas.srcWidth > 1024 \/ canvas.srcHeight > 1024)) =>
     /\ (IF canvas.width > canvas.height THEN canvas.width ELSE canvas.height) = 1024
     /\ IF canvas.srcWidth > canvas.srcHeight
        THEN /\ canvas.width = 1024
             /\ canvas.height * canvas.srcWidth - canvas.srcHeight * 1024 <= canvas.srcWidth
             /\ canvas.srcHeight * 1024 - canvas.height * canvas.srcWidth <= canvas.srcWidth
        ELSE /\ canvas.height = 1024
             /\ canvas.width * canvas.srcHeight - canvas.srcWidth * 1024 <= canvas.srcHeight
             /\ canvas.srcWidth * 1024 - canvas.width * canvas.srcHeight <= canvas.srcHeight

C13_Witness ==
  /\ canvas.srcWidth = 1568 /\ canvas.srcHeight = 1568
  /\ canvas.width = 1023 /\ canvas.height = 1024
  /\ runs[1].stage = "done"

(* C14: an image whose width and height are both at most 1024 gets a canvas *)
(* of the same width and height.                                            *)
C14_Unchanged ==
  (canvas # NoCanvas /\ canvas.srcWidth <= 1024 /\ canvas.srcHeight <= 1024) =>
     /\ canvas.width = canvas.srcWidth
     /\ canvas.height = canvas.srcHeight

C14_Witness ==
  /\ canvas.srcWidth = 1024 /\ canvas.srcHeight = 600
  /\ canvas.width = 1024 /\ canvas.height = 600
  /\ homeImage = Str(<<"data:image/jpeg;base64", ",", "photo.png">>)

\* the file's MIME type does not begin with "image/"
NotAnImage(f) == Len(f.type) = 0 \/ f.type[1] # "image/"

(* C15: for a file whose MIME type does not begin with "image/" the page    *)
(* shows the validation message, compressImage is not invoked and no        *)
(* network call is made because of that selection.                          *)
C15_NotAnImage ==
  /\ [](\A i \in 1..Len(runs) : ~NotAnImage(picked[runs[i].sel]))
  /\ [][(Len(picked') = Len(picked) + 1 /\ NotAnImage(picked'[Len(picked')])) =>
          /\ homeError' = Str(NotImageMessage)
          /\ runs' = runs
          /\ canvas' = canvas
          /\ homeImage' = homeImage
          /\ requests' = requests
          /\ analysis' = analysis]_vars

C15_Witness ==
  /\ Len(picked) = 1
  /\ picked[1].name = "notes.txt"
  /\ homeError = Str(NotImageMessage)
  /\ runs = <<>>
  /\ requests = 0

\* the instruction member of the request body
RequestPrompt == Get(JsonParse(reqBody).val, "prompt")

\* the description of the first annotation of the OCR reply
ExtractedText ==
  Get(Index(Get(Index(Get(DataOf(visionRes), "responses"), 0), "textAnnotations"), 0),
      "description")

\* the text of a workflow request body with these two inputs
RunBody(text, instruction) ==
  Ser(Obj(<<Prop("inputs", Obj(<<Prop("ocr_text", text), Prop("user_prompt", instruction)>>)),
            Prop("response_mode", Str(<<"blocking">>)),
            Prop("user", Str(<<"image-extractor-user">>))>>), FALSE, 0)

\* the workflow request carries the extracted text and this instruction
WorkflowSent(instruction) ==
  \E i \in 1..Len(net) :
     /\ net[i].ev = "workflow_call"
     /\ net[i].body = RunBody(ExtractedText, instruction)

(* C16 as stated: user_prompt is the request's instruction whenever one is  *)
(* supplied and the default exactly when it is absent; ocr_text is the text *)
(* extracted by the OCR call of the same request.                           *)
C16_Original ==
  Called("workflow_call") =>
     WorkflowSent(IF RequestPrompt = Undefined THEN Str(<<"chuushutsu shite kudasai">>)
                  ELSE RequestPrompt)

(* C16 amended: user_prompt is the request's instruction when that is a     *)
(* non-empty string and the default when the instruction is absent or the   *)
(* empty string; ocr_text is the text extracted by the OCR call of the same *)
(* request.                                                                 *)
C16_Amended ==
  Called("workflow_call") =>
     WorkflowSent(IF RequestPrompt.t = "string" /\ Len(RequestPrompt.v) > 0
                  THEN RequestPrompt
                  ELSE Str(<<"chuushutsu shite kudasai">>))

C16_Witness ==
  /\ RequestPrompt = Str(<<>>)
  /\ WorkflowSent(Str(<<"chuushutsu shite kudasai">>))
  /\ ExtractedText = Str(<<"Hello World">>)
  /\ pc = "workflow_fetch"

\* the workflow base URL that a setting stands for
BaseUrlOf(u) ==
  IF u.t = "string" /\ Len(u.v) > 0 THEN u.v ELSE <<"https://api.dify.ai/v1">>

\* every outbound call of the request carries these three settings
CallsUse(ocrKey, workflowKey, baseUrl) ==
  \A i \in 1..Len(net) :
     /\ net[i].ev = "ocr_call" =>
          /\ Configured(ocrKey)
          /\ Configured(workflowKey)
          /\ net[i].url = <<"https://vision.googleapis.com/v1/images:annotate?key=">> \o ocrKey.v
     /\ net[i].ev = "workflow_call" =>
          /\ Configured(workflowKey)
          /\ net[i].auth = <<"Bearer ">> \o workflowKey.v
          /\ net[i].url = BaseUrlOf(baseUrl) \o <<"/workflows/run">>

(* C17 as stated: the three settings are read once per process lifetime:    *)
(* after a setting changes, every request still behaves according to the   *)
(* value the process started with.                                          *)
C17_Original ==
  CallsUse(bootEnv.GOOGLE_VISION_API_KEY, bootEnv.DIFY_API_KEY, bootEnv.DIFY_API_URL)

(* C17 amended: each request looks the three settings up in the process     *)
(* environment, once, when its body has been read and its image accepted;   *)
(* it keeps those values until it ends, and its outbound calls carry them.  *)
C17_Amended ==
  /\ [][(pc = "req_json" /\ pc' # "req_json" /\ BodyReadable /\ ~ImagePayloadMissing) =>
          /\ googleApiKey' = env.GOOGLE_VISION_API_KEY
          /\ difyApiKey' = env.DIFY_API_KEY
          /\ difyApiUrl'.v = BaseUrlOf(env.DIFY_API_URL)]_vars
  /\ [][pc \notin {"idle", "req_json"} =>
          <<googleApiKey, difyApiKey, difyApiUrl>>' = <<googleApiKey, difyApiKey, difyApiUrl>>]_vars
  /\ [](pc \notin {"idle", "req_json"} => CallsUse(googleApiKey, difyApiKey, difyApiUrl))

C17_Witness ==
  /\ ~Configured(bootEnv.GOOGLE_VISION_API_KEY)
  /\ ~Configured(env.DIFY_API_KEY)
  /\ pc = "workflow_fetch"
  /\ Called("workflow_call")
  /\ CallsUse(Str(<<"secret">>), Str(<<"secret">>), Undefined)

\* an analysis request is in flight
InFlight == analysis.stage # "none"

\* a result is displayed
ResultShown == result # Str(<<>>)

(* C18: an analysis request is sent only when an image is held and no       *)
(* analysis is in flight, loading is true exactly while a request is in     *)
(* flight, and every analysis ends with loading false and either a          *)
(* non-empty result with error null, or an error message with result empty. *)
C18_Lifecycle ==
  /\ [](loading <=> InFlight)
  /\ [][requests' # requests =>
          /\ homeImage.t = "string" /\ Len(homeImage.v) > 0
          /\ ~InFlight
          /\ InFlight']_vars
  /\ [][(InFlight /\ ~InFlight') =>
          /\ ~loading'
          /\ \/ ResultShown' /\ homeError' = Null
             \/ homeError' # Null /\ ~ResultShown']_vars

(* C19: a displayed non-empty result was computed from the image currently  *)
(* held; the page never shows a new image with the previous image's result. *)
C19_ResultOfHeldImage == ResultShown => resultFrom = homeImage

\* every compressImage run has ended
AllSettled == \A i \in 1..Len(runs) : runs[i].stage \in {"done", "failed"}

\* the file can be read and decoded as an image
LoadableImage(f) == ~NotAnImage(f) /\ f.readable /\ f.decodable

(* C20: after image file A and then image file B are selected, the image    *)
(* finally held is B's, in whichever order the two compressImage runs end.  *)
C20_LastSelectionWins ==
  (/\ Len(picked) >= 2
   /\ AllSettled
   /\ LoadableImage(picked[Len(picked) - 1])
   /\ LoadableImage(picked[Len(picked)])) =>
     /\ homeImage.t = "string"
     /\ Len(homeImage.v) = 3
     /\ homeImage.v[3] = picked[Len(picked)].name

(* C21: an error message and a non-empty result are never held at the same  *)
(* time: in every state of the page, error # null implies result = ''.      *)
C21_ErrorExcludesResult == homeError # Null => result = Str(<<>>)

====
